---- MODULE Spec2Model ----
(***************************************************************************)
(* Branch-aware personal-file synchronisation of claude-wrapper.           *)
(*                                                                         *)
(* Strings (branch names, file names, file contents) are sequences of      *)
(* symbols.  A symbol is a one-character string ("/", "%", "2", ...) or an *)
(* ordinary word ("CLAUDE.md", "branches") that stands for a run of        *)
(* ordinary characters and contains none of the characters the code looks  *)
(* for.  A path is a sequence of names; the file system is a function from *)
(* the paths that exist to their nodes.                                    *)
(***************************************************************************)
EXTENDS Integers, Sequences, FiniteSets, TLC

VARIABLES
    fs,          \* the file system: path -> node
    gitBranches, \* `git branch`: the live branch names
    head,        \* `git branch --show-current`; <<>> when not on a branch
    inRepo,      \* whether `git rev-parse --show-toplevel` succeeds
    now,         \* the clock, in half seconds since the epoch
    pc,          \* where run() is: "idle", "claude", "syncout", "cleanup"
    cfg,         \* the Config of the running invocation
    claudeExit,  \* the exit code runClaude returned
    outcome,     \* how the last run() ended
    last,        \* what the last completed phase observed (for the properties)
    runs,        \* invocations started so far
    edits,       \* user actions so far
    sanIn,       \* sanitizer: the branch name given
    sanSeg,      \* sanitizer: sanitizeBranchName(sanIn)
    sanBack,     \* sanitizer: unsanitizeBranchName(sanSeg)
    sanLoc,      \* sanitizer: loadConfig(sanIn).StoreLocation
    sanPc,       \* sanitizer: "off", "in", "seg", "back"
    exCalls,     \* exclude manager: the add calls made, with their results
    exLast       \* exclude manager: the last call, its input and its result

vars == <<fs, gitBranches, head, inRepo, now, pc, cfg, claudeExit, outcome,
          last, runs, edits, sanIn, sanSeg, sanBack, sanLoc, sanPc,
          exCalls, exLast>>

sanVars == <<sanIn, sanSeg, sanBack, sanLoc, sanPc>>

exVars == <<exCalls, exLast>>

sysVars == <<fs, gitBranches, head, inRepo, now, pc, cfg, claudeExit, outcome,
             last, runs, edits>>

-----------------------------------------------------------------------------
(* Constants of the program *)

excludeFile == <<".git", "/", "info", "/", "exclude">>
deletionMarker == <<".deleted_at">>
branchesDir == <<"branches">>
deletionGraceDays == 7

(* The clock counts half seconds, so that time.Now() can fall between two *)
(* values of now.Unix().                                                   *)
TicksPerSecond == 2
Hour == 3600 * TicksPerSecond

-----------------------------------------------------------------------------
(* strings *)

RECURSIVE ReplaceAll(_, _, _)
ReplaceAll(s, old, new) ==
    IF Len(s) < Len(old) THEN s
    ELSE IF SubSeq(s, 1, Len(old)) = old
         THEN new \o ReplaceAll(SubSeq(s, Len(old) + 1, Len(s)), old, new)
         ELSE <<Head(s)>> \o ReplaceAll(Tail(s), old, new)

(* sanitizeBranchName, but "%" is left as it is *)
sanitizeBranchName_NoPercent(branch) ==
    ReplaceAll(branch, <<"/">>, <<"%", "2", "F">>)

(* sanitizeBranchName, but "/" is encoded before "%" *)
sanitizeBranchName_SlashFirst(branch) ==
    ReplaceAll(ReplaceAll(branch, <<"/">>, <<"%", "2", "F">>),
               <<"%">>, <<"%", "2", "5">>)

sanitizeBranchName(branch) ==
    ReplaceAll(ReplaceAll(branch, <<"%">>, <<"%", "2", "5">>),
               <<"/">>, <<"%", "2", "F">>)

unsanitizeBranchName(name) ==
    ReplaceAll(ReplaceAll(name, <<"%", "2", "F">>, <<"/">>),
               <<"%", "2", "5">>, <<"%">>)

TrimSuffix(s, suffix) ==
    IF Len(s) >= Len(suffix)
       /\ SubSeq(s, Len(s) - Len(suffix) + 1, Len(s)) = suffix
    THEN SubSeq(s, 1, Len(s) - Len(suffix))
    ELSE s

HasPrefix(s, prefix) ==
    Len(s) >= Len(prefix) /\ SubSeq(s, 1, Len(prefix)) = prefix

(* unicode.IsSpace over the symbols of the model *)
IsSpace(c) == c \in {" ", "\t", "\r", "\n"}

RECURSIVE TrimLeft(_)
TrimLeft(s) ==
    IF s # <<>> /\ IsSpace(Head(s)) THEN TrimLeft(Tail(s)) ELSE s

RECURSIVE TrimRight(_)
TrimRight(s) ==
    IF s # <<>> /\ IsSpace(s[Len(s)])
    THEN TrimRight(SubSeq(s, 1, Len(s) - 1))
    ELSE s

TrimSpace(s) == TrimRight(TrimLeft(s))

ContainsAny(s, chars) == \E i \in 1..Len(s) : s[i] \in chars

(* The symbols in byte order of their first differing character. *)
SymbolOrder ==
    <<"\t", "\n", "\r", " ", "#", "%", "*", "+", "-", ".", ".deleted_at", ".git",
      ".workspaces", "/",
      "0", "1", "2", "3", "4", "5", "6", "7", "8", "9", "?",
      "A", "B", "CLAUDE.md", "F", "a", "a.txt", "b", "b.txt", "branches", "c",
      "exclude", "home", "info", "main", "notes", "repo", "stray", "x">>

Rank(c) == CHOOSE i \in 1..Len(SymbolOrder) : SymbolOrder[i] = c

RECURSIVE NameLess(_, _)
NameLess(a, b) ==
    IF a = <<>> THEN b # <<>>
    ELSE IF b = <<>> THEN FALSE
    ELSE IF Head(a) = Head(b) THEN NameLess(Tail(a), Tail(b))
    ELSE Rank(Head(a)) < Rank(Head(b))

RECURSIVE SortNames(_)
SortNames(S) ==
    IF S = {} THEN <<>>
    ELSE LET m == CHOOSE x \in S : \A y \in S \ {x} : NameLess(x, y)
         IN  <<m>> \o SortNames(S \ {m})

SeqToSet(s) == {s[i] : i \in 1..Len(s)}

-----------------------------------------------------------------------------
(* the file system *)

DirPerm == 493     \* 0755
FilePerm == 420    \* 0644

File(data, mode) == [kind |-> "file", data |-> data, mode |-> mode]
Dir(mode) == [kind |-> "dir", data |-> <<>>, mode |-> mode]

Parent(p) == SubSeq(p, 1, Len(p) - 1)
Base(p) == p[Len(p)]

Put(f, p, node) == [q \in DOMAIN f \cup {p} |-> IF q = p THEN node ELSE f[q]]

Stat(f, p) == p \in DOMAIN f
IsDir(f, p) == p \in DOMAIN f /\ f[p].kind = "dir"
IsFile(f, p) == p \in DOMAIN f /\ f[p].kind = "file"

Under(f, p) == {q \in DOMAIN f : Len(q) > Len(p) /\ SubSeq(q, 1, Len(p)) = p}

(* os.ReadDir: the names directly in p, sorted by file name *)
ReadDir(f, p) ==
    SortNames({Base(q) : q \in {r \in Under(f, p) : Len(r) = Len(p) + 1}})

(* the names directly in p, as a set *)
ChildNames(f, p) == {Base(q) : q \in {r \in Under(f, p) : Len(r) = Len(p) + 1}}

(* the subtree at p, with paths relative to p *)
Tree(f, p) ==
    [r \in {SubSeq(q, Len(p) + 1, Len(q)) : q \in Under(f, p) \cup ({p} \cap DOMAIN f)}
        |-> f[p \o r]]

(* what p contains, with paths relative to p: nothing when p is absent *)
Entries(f, p) ==
    [r \in {SubSeq(q, Len(p) + 1, Len(q)) : q \in Under(f, p)} |-> f[p \o r]]

RECURSIVE MkdirAll(_, _, _)
MkdirAll(f, p, mode) ==
    IF p \in DOMAIN f THEN [fs |-> f, err |-> f[p].kind # "dir"]
    ELSE LET r == MkdirAll(f, Parent(p), mode)
         IN  IF r.err THEN r
             ELSE [fs |-> Put(r.fs, p, Dir(mode)), err |-> FALSE]

RemoveAll(f, p) ==
    [q \in DOMAIN f \ (Under(f, p) \cup {p}) |-> f[q]]

(* os.Remove of a file (or an empty directory) *)
Remove(f, p) ==
    IF p \in DOMAIN f /\ Under(f, p) = {} THEN RemoveAll(f, p) ELSE f

WriteFile(f, p, data, mode) ==
    IF ~IsDir(f, Parent(p)) \/ IsDir(f, p) THEN [fs |-> f, err |-> TRUE]
    ELSE [fs |-> Put(f, p, File(data, IF p \in DOMAIN f THEN f[p].mode ELSE mode)),
          err |-> FALSE]

RECURSIVE Fields(_, _, _)
Fields(s, sep, cur) ==
    IF s = <<>> THEN <<cur>>
    ELSE IF Head(s) = sep THEN <<cur>> \o Fields(Tail(s), sep, <<>>)
    ELSE Fields(Tail(s), sep, Append(cur, Head(s)))

RECURSIVE JoinParts(_, _)
JoinParts(p, parts) ==
    IF parts = <<>> THEN p
    ELSE LET c == Head(parts)
             q == IF c = <<>> \/ c = <<".">> THEN p
                  ELSE IF c = <<".", ".">>
                       THEN (IF p = <<>> THEN p ELSE Parent(p))
                       ELSE Append(p, c)
         IN  JoinParts(q, Tail(parts))

(* filepath.Join(p, name): name is split at "/" and the result is cleaned *)
Join(p, name) == JoinParts(p, Fields(name, "/", <<>>))

(* bufio.ScanLines: the lines of data, without "\n" and one trailing "\r" *)
ScanLines(data) ==
    LET parts == Fields(data, "\n", <<>>)
        kept  == IF parts[Len(parts)] = <<>>
                 THEN SubSeq(parts, 1, Len(parts) - 1) ELSE parts
    IN  [i \in 1..Len(kept) |-> TrimSuffix(kept[i], <<"\r">>)]

-----------------------------------------------------------------------------
(* Tree Copier *)

(* copyFile, but without the os.Chmod at its end *)
copyFile_NoChmod(f, src, dst) ==
    IF ~Stat(f, src) THEN [fs |-> f, err |-> TRUE]
    ELSE IF ~IsDir(f, Parent(dst)) \/ IsDir(f, dst)
         THEN [fs |-> f, err |-> TRUE]
    ELSE [fs |-> Put(f, dst, File(IF IsDir(f, src) THEN <<>> ELSE f[src].data,
                                  IF Stat(f, dst) THEN f[dst].mode
                                  ELSE FilePerm)),
          err |-> IsDir(f, src)]

copyFile(f, src, dst) ==
    IF ~Stat(f, src) THEN [fs |-> f, err |-> TRUE]                \* os.Open
    ELSE IF ~IsDir(f, Parent(dst)) \/ IsDir(f, dst)
         THEN [fs |-> f, err |-> TRUE]                            \* os.Create
    ELSE IF IsDir(f, src)                                         \* io.Copy
         THEN [fs |-> Put(f, dst, File(<<>>, IF Stat(f, dst) THEN f[dst].mode
                                                  ELSE FilePerm)),
               err |-> TRUE]
    ELSE [fs |-> Put(f, dst, File(f[src].data, f[src].mode)),     \* os.Chmod
          err |-> FALSE]

RECURSIVE copyDir(_, _, _)
RECURSIVE copyDirEntries(_, _, _, _)
copyDirEntries(f, src, dst, entries) ==
    IF entries = <<>> THEN [fs |-> f, err |-> FALSE]
    ELSE LET srcPath == Append(src, Head(entries))
             dstPath == Append(dst, Head(entries))
             r == IF IsDir(f, srcPath) THEN copyDir(f, srcPath, dstPath)
                  ELSE copyFile(f, srcPath, dstPath)
         IN  IF r.err THEN r
             ELSE copyDirEntries(r.fs, src, dst, Tail(entries))

copyDir(f, src, dst) ==
    IF ~Stat(f, src) THEN [fs |-> f, err |-> TRUE]
    ELSE LET m == MkdirAll(f, dst, f[src].mode)
         IN  IF m.err THEN m
             ELSE IF ~IsDir(f, src) THEN [fs |-> m.fs, err |-> TRUE]
             ELSE copyDirEntries(m.fs, src, dst, ReadDir(m.fs, src))

copyPath(f, src, dst) ==
    IF ~Stat(f, src) THEN [fs |-> f, err |-> TRUE]
    ELSE IF IsDir(f, src) THEN copyDir(f, src, dst)
    ELSE copyFile(f, src, dst)

listDir(f, path) ==
    IF ~Stat(f, path) THEN [items |-> <<>>, err |-> FALSE]
    ELSE IF ~IsDir(f, path) THEN [items |-> <<>>, err |-> TRUE]
    ELSE [items |-> ReadDir(f, path), err |-> FALSE]

filterItems(items) ==
    SelectSeq(items, LAMBDA item : ~(item = deletionMarker \/ item = branchesDir))

-----------------------------------------------------------------------------
(* Exclude List Manager *)

excludePathOf(repoRoot) == Join(repoRoot, excludeFile)

(* readExcludeLines, but entries that do not exist are kept *)
readExcludeLines_KeepMissing(f, repoRoot, lines) ==
    LET kept == SelectSeq(lines, LAMBDA l :
                    LET line == TrimSpace(l)
                    IN  /\ line # <<>>
                        /\ ~HasPrefix(line, <<"#">>)
                        /\ ~ContainsAny(line, {"*", "?", "[", "]"}))
    IN  [i \in 1..Len(kept) |-> TrimSuffix(TrimSpace(kept[i]), <<"/">>)]

RECURSIVE readExcludeLines(_, _, _)
readExcludeLines(f, repoRoot, lines) ==
    IF lines = <<>> THEN <<>>
    ELSE LET line == TrimSpace(Head(lines))
             rest == readExcludeLines(f, repoRoot, Tail(lines))
         IN  IF line = <<>> \/ HasPrefix(line, <<"#">>) THEN rest
             ELSE IF ContainsAny(line, {"*", "?", "[", "]"}) THEN rest
             ELSE LET item == TrimSuffix(line, <<"/">>)
                  IN  IF Stat(f, Join(repoRoot, item)) THEN <<item>> \o rest
                      ELSE rest

(* os.Open fails with ENOTDIR, which is not os.IsNotExist *)
ThroughFile(f, p) == \E i \in 1..(Len(p) - 1) : IsFile(f, SubSeq(p, 1, i))

readExcludeFile(f, repoRoot) ==
    LET excludePath == excludePathOf(repoRoot)
    IN  IF ~Stat(f, excludePath)
        THEN [items |-> <<>>, err |-> ThroughFile(f, excludePath)]
        ELSE IF IsDir(f, excludePath) THEN [items |-> <<>>, err |-> TRUE]
        ELSE [items |-> readExcludeLines(f, repoRoot,
                                         ScanLines(f[excludePath].data)),
              err |-> FALSE]

addToExclude(f, repoRoot, item) ==
    LET excludePath == excludePathOf(repoRoot)
        m == MkdirAll(f, Parent(excludePath), DirPerm)
    IN  IF m.err THEN m
        ELSE IF IsDir(m.fs, excludePath) THEN [fs |-> m.fs, err |-> TRUE]
        ELSE IF Stat(m.fs, excludePath)
                /\ \E l \in SeqToSet(ScanLines(m.fs[excludePath].data)) :
                       TrimSpace(l) = item
             THEN [fs |-> m.fs, err |-> FALSE]
        ELSE LET old == IF Stat(m.fs, excludePath) THEN m.fs[excludePath]
                        ELSE File(<<>>, FilePerm)
             IN  [fs |-> Put(m.fs, excludePath,
                             File(old.data \o item \o <<"\n">>, old.mode)),
                  err |-> FALSE]

-----------------------------------------------------------------------------
(* strconv *)

Digits == <<"0", "1", "2", "3", "4", "5", "6", "7", "8", "9">>
DigitValue(c) == (CHOOSE i \in 1..Len(Digits) : Digits[i] = c) - 1
IsDigit(c) == c \in SeqToSet(Digits)

RECURSIVE FormatNat(_)
FormatNat(n) ==
    IF n < 10 THEN <<Digits[n + 1]>>
    ELSE FormatNat(n \div 10) \o <<Digits[(n % 10) + 1]>>

(* strconv.FormatInt(n, 10) *)
FormatInt(n) == IF n < 0 THEN <<"-">> \o FormatNat(-n) ELSE FormatNat(n)

RECURSIVE ParseNat(_, _)
ParseNat(s, acc) ==
    IF s = <<>> THEN acc
    ELSE ParseNat(Tail(s), acc * 10 + DigitValue(Head(s)))

(* strconv.ParseInt(s, 10, 64): an optional sign, then one or more digits *)
ParseInt(s) ==
    LET signed == s # <<>> /\ Head(s) \in {"+", "-"}
        body   == IF signed THEN Tail(s) ELSE s
    IN  IF body = <<>> \/ \E i \in 1..Len(body) : ~IsDigit(body[i])
        THEN [ok |-> FALSE, value |-> 0]
        ELSE [ok |-> TRUE,
              value |-> IF signed /\ Head(s) = "-" THEN -ParseNat(body, 0)
                        ELSE ParseNat(body, 0)]

-----------------------------------------------------------------------------
(* Storage Resolver *)

HomeDir == << <<"home">> >>
RepoRoot == << <<"repo">> >>
getDefaultBranch == <<"main">>

(* loadConfig, but the branch name is used as the directory name *)
loadConfig_Unsanitized(currentBranch) ==
    LET storeBase == Join(Join(HomeDir, <<".workspaces">>), Base(RepoRoot))
    IN  [RepoRoot      |-> RepoRoot,
         CurrentBranch |-> currentBranch,
         DefaultBranch |-> getDefaultBranch,
         StoreBase     |-> storeBase,
         StoreLocation |->
             IF currentBranch = getDefaultBranch THEN storeBase
             ELSE Join(Join(storeBase, branchesDir), currentBranch)]

loadConfig(currentBranch) ==
    LET storeBase == Join(Join(HomeDir, <<".workspaces">>), Base(RepoRoot))
    IN  [RepoRoot      |-> RepoRoot,
         CurrentBranch |-> currentBranch,
         DefaultBranch |-> getDefaultBranch,
         StoreBase     |-> storeBase,
         StoreLocation |->
             IF currentBranch = getDefaultBranch THEN storeBase
             ELSE Join(Join(storeBase, branchesDir),
                       sanitizeBranchName(currentBranch))]

RECURSIVE initializeCopyItems(_, _, _)

(* initializeCopyItems, but the deletion marker is inherited too *)
RECURSIVE initializeCopyItems_KeepMarker(_, _, _)
initializeCopyItems_KeepMarker(f, c, items) ==
    IF items = <<>> THEN [fs |-> f, err |-> FALSE]
    ELSE LET item == Head(items)
         IN  IF item = branchesDir
             THEN initializeCopyItems_KeepMarker(f, c, Tail(items))
             ELSE LET r == copyPath(f, Join(c.StoreBase, item),
                                    Join(c.StoreLocation, item))
                  IN  IF r.err THEN r
                      ELSE initializeCopyItems_KeepMarker(r.fs, c, Tail(items))

initializeCopyItems(f, c, items) ==
    IF items = <<>> THEN [fs |-> f, err |-> FALSE]
    ELSE LET item == Head(items)
         IN  IF item = branchesDir \/ item = deletionMarker
             THEN initializeCopyItems(f, c, Tail(items))
             ELSE LET r == copyPath(f, Join(c.StoreBase, item),
                                    Join(c.StoreLocation, item))
                  IN  IF r.err THEN r
                      ELSE initializeCopyItems(r.fs, c, Tail(items))

(* initializeBranchStorage, but existing storage is seeded again *)
initializeBranchStorage_Always(f, c) ==
    IF c.CurrentBranch = c.DefaultBranch THEN [fs |-> f, err |-> FALSE]
    ELSE LET m == MkdirAll(f, c.StoreLocation, DirPerm)
         IN  IF m.err THEN m
             ELSE IF Stat(m.fs, c.StoreBase)
                  THEN LET l == listDir(m.fs, c.StoreBase)
                       IN  IF l.err THEN [fs |-> m.fs, err |-> TRUE]
                           ELSE initializeCopyItems(m.fs, c, l.items)
                  ELSE m

initializeBranchStorage(f, c) ==
    IF c.CurrentBranch = c.DefaultBranch THEN [fs |-> f, err |-> FALSE]
    ELSE IF Stat(f, c.StoreLocation) THEN [fs |-> f, err |-> FALSE]
    ELSE LET m == MkdirAll(f, c.StoreLocation, DirPerm)
         IN  IF m.err THEN m
             ELSE IF Stat(m.fs, c.StoreBase)
                  THEN LET l == listDir(m.fs, c.StoreBase)
                       IN  IF l.err THEN [fs |-> m.fs, err |-> TRUE]
                           ELSE initializeCopyItems(m.fs, c, l.items)
                  ELSE m

-----------------------------------------------------------------------------
(* Sync Engine *)

(* syncInCopyItems, but a failure undoes what was copied and registered *)
RECURSIVE syncInCopyItems_Rollback(_, _, _)
syncInCopyItems_Rollback(f, c, items) ==
    IF items = <<>> THEN [fs |-> f, err |-> FALSE]
    ELSE LET item == Head(items)
             r == copyPath(f, Join(c.StoreLocation, item),
                           Join(c.RepoRoot, item))
         IN  IF r.err THEN [fs |-> f, err |-> TRUE]
             ELSE LET e == addToExclude(r.fs, c.RepoRoot, item)
                  IN  IF e.err THEN [fs |-> f, err |-> TRUE]
                      ELSE LET rest == syncInCopyItems_Rollback(e.fs, c,
                                                                Tail(items))
                           IN  IF rest.err THEN [fs |-> f, err |-> TRUE]
                               ELSE rest

RECURSIVE syncInCopyItems(_, _, _)
syncInCopyItems(f, c, items) ==
    IF items = <<>> THEN [fs |-> f, err |-> FALSE]
    ELSE LET item == Head(items)
             r == copyPath(f, Join(c.StoreLocation, item),
                           Join(c.RepoRoot, item))
         IN  IF r.err THEN r
             ELSE LET e == addToExclude(r.fs, c.RepoRoot, item)
                  IN  IF e.err THEN e
                      ELSE syncInCopyItems(e.fs, c, Tail(items))

(* variant: the listing of the storage is not filtered *)
syncIn_Unfiltered(f, c) ==
    LET i == initializeBranchStorage(f, c)
    IN  IF i.err THEN i
        ELSE LET l == listDir(i.fs, c.StoreLocation)
             IN  IF l.err THEN [fs |-> i.fs, err |-> TRUE]
                 ELSE syncInCopyItems(i.fs, c, l.items)

syncIn(f, c) ==
    LET i == initializeBranchStorage(f, c)
    IN  IF i.err THEN i
        ELSE LET l == listDir(i.fs, c.StoreLocation)
             IN  IF l.err THEN [fs |-> i.fs, err |-> TRUE]
                 ELSE syncInCopyItems(i.fs, c, filterItems(l.items))

(* variant: every entry is also copied into the default storage *)
RECURSIVE syncOutCopyItems_AlsoBase(_, _, _)
syncOutCopyItems_AlsoBase(f, c, items) ==
    IF items = <<>> THEN [fs |-> f, err |-> FALSE]
    ELSE LET item == Head(items)
             src  == Join(c.RepoRoot, item)
         IN  IF ~Stat(f, src) THEN syncOutCopyItems_AlsoBase(f, c, Tail(items))
             ELSE LET b == copyPath(f, src, Join(c.StoreBase, item))
                      r == copyPath(b.fs, src, Join(c.StoreLocation, item))
                  IN  IF r.err THEN r
                      ELSE syncOutCopyItems_AlsoBase(r.fs, c, Tail(items))

RECURSIVE syncOutCopyItems(_, _, _)
syncOutCopyItems(f, c, items) ==
    IF items = <<>> THEN [fs |-> f, err |-> FALSE]
    ELSE LET item == Head(items)
             src  == Join(c.RepoRoot, item)
         IN  IF ~Stat(f, src) THEN syncOutCopyItems(f, c, Tail(items))
             ELSE LET r == copyPath(f, src, Join(c.StoreLocation, item))
                  IN  IF r.err THEN r
                      ELSE syncOutCopyItems(r.fs, c, Tail(items))

RECURSIVE syncOutRemoveItems(_, _, _, _)
syncOutRemoveItems(f, c, excludeItems, storageItems) ==
    IF storageItems = <<>> THEN f
    ELSE LET item == Head(storageItems)
             g == IF item = deletionMarker \/ item = branchesDir THEN f
                  ELSE IF item \notin SeqToSet(excludeItems)
                       THEN RemoveAll(f, Join(c.StoreLocation, item))
                       ELSE f
         IN  syncOutRemoveItems(g, c, excludeItems, Tail(storageItems))

syncOut(f, c) ==
    LET x == readExcludeFile(f, c.RepoRoot)
    IN  IF x.err THEN [fs |-> f, err |-> TRUE]
        ELSE LET m == MkdirAll(f, c.StoreLocation, DirPerm)
             IN  IF m.err THEN m
                 ELSE LET r == syncOutCopyItems(m.fs, c, x.items)
                      IN  IF r.err THEN r
                          ELSE LET l == listDir(r.fs, c.StoreLocation)
                               IN  IF l.err THEN [fs |-> r.fs, err |-> TRUE]
                                   ELSE [fs  |-> syncOutRemoveItems(r.fs, c, x.items,
                                                                    l.items),
                                         err |-> FALSE]

-----------------------------------------------------------------------------
(* Retention Manager *)

gracePeriod == deletionGraceDays * 24 * Hour

(* now.Unix() and now.Sub(time.Unix(timestamp, 0)), in ticks *)
Unix(t) == t \div TicksPerSecond
Since(t, timestamp) == t - timestamp * TicksPerSecond

(* cleanupBranchDir, but the directory name is taken for the branch name *)
cleanupBranchDir_RawName(f, c, branches, t, dirName) ==
    LET branchName == dirName
        branchPath == Join(Join(c.StoreBase, branchesDir), dirName)
        markerPath == Join(branchPath, deletionMarker)
    IN  IF branchName = c.CurrentBranch THEN f
        ELSE IF branchName \in branches THEN Remove(f, markerPath)
        ELSE IF IsFile(f, markerPath)
             THEN LET timestamp == ParseInt(TrimSpace(f[markerPath].data))
                  IN  IF timestamp.ok /\ Since(t, timestamp.value) > gracePeriod
                      THEN RemoveAll(f, branchPath)
                      ELSE f
             ELSE WriteFile(f, markerPath, FormatInt(Unix(t)), FilePerm).fs

(* cleanupBranchDir, but a marker exactly as old as the grace period expires *)
cleanupBranchDir_AtGrace(f, c, branches, t, dirName) ==
    LET branchName == unsanitizeBranchName(dirName)
        branchPath == Join(Join(c.StoreBase, branchesDir), dirName)
        markerPath == Join(branchPath, deletionMarker)
    IN  IF branchName = c.CurrentBranch THEN f
        ELSE IF branchName \in branches THEN Remove(f, markerPath)
        ELSE IF IsFile(f, markerPath)
             THEN LET timestamp == ParseInt(TrimSpace(f[markerPath].data))
                  IN  IF timestamp.ok /\ Since(t, timestamp.value) >= gracePeriod
                      THEN RemoveAll(f, branchPath)
                      ELSE f
             ELSE WriteFile(f, markerPath, FormatInt(Unix(t)), FilePerm).fs

(* variant: the marker holds the clock reading, not whole seconds *)
cleanupBranchDir_StampTicks(f, c, branches, t, dirName) ==
    LET branchName == unsanitizeBranchName(dirName)
        branchPath == Join(Join(c.StoreBase, branchesDir), dirName)
        markerPath == Join(branchPath, deletionMarker)
    IN  IF branchName = c.CurrentBranch THEN f
        ELSE IF branchName \in branches THEN Remove(f, markerPath)
        ELSE IF IsFile(f, markerPath)
             THEN LET timestamp == ParseInt(TrimSpace(f[markerPath].data))
                  IN  IF timestamp.ok /\ Since(t, timestamp.value) > gracePeriod
                      THEN RemoveAll(f, branchPath)
                      ELSE f
             ELSE WriteFile(f, markerPath, FormatInt(t), FilePerm).fs

(* variant: a marker that does not parse is written anew *)
cleanupBranchDir_RemarkMalformed(f, c, branches, t, dirName) ==
    LET branchName == unsanitizeBranchName(dirName)
        branchPath == Join(Join(c.StoreBase, branchesDir), dirName)
        markerPath == Join(branchPath, deletionMarker)
    IN  IF branchName = c.CurrentBranch THEN f
        ELSE IF branchName \in branches THEN Remove(f, markerPath)
        ELSE IF IsFile(f, markerPath)
             THEN LET timestamp == ParseInt(TrimSpace(f[markerPath].data))
                  IN  IF ~timestamp.ok
                      THEN WriteFile(f, markerPath, FormatInt(Unix(t)), FilePerm).fs
                      ELSE IF Since(t, timestamp.value) > gracePeriod
                           THEN RemoveAll(f, branchPath)
                           ELSE f
             ELSE WriteFile(f, markerPath, FormatInt(Unix(t)), FilePerm).fs

(* variant: a marker within the grace period is written anew *)
cleanupBranchDir_Remark(f, c, branches, t, dirName) ==
    LET branchName == unsanitizeBranchName(dirName)
        branchPath == Join(Join(c.StoreBase, branchesDir), dirName)
        markerPath == Join(branchPath, deletionMarker)
    IN  IF branchName = c.CurrentBranch THEN f
        ELSE IF branchName \in branches THEN Remove(f, markerPath)
        ELSE IF IsFile(f, markerPath)
             THEN LET timestamp == ParseInt(TrimSpace(f[markerPath].data))
                  IN  IF timestamp.ok /\ Since(t, timestamp.value) > gracePeriod
                      THEN RemoveAll(f, branchPath)
                      ELSE IF timestamp.ok
                           THEN WriteFile(f, markerPath, FormatInt(Unix(t)),
                                          FilePerm).fs
                           ELSE f
             ELSE WriteFile(f, markerPath, FormatInt(Unix(t)), FilePerm).fs

cleanupBranchDir(f, c, branches, t, dirName) ==
    LET branchName == unsanitizeBranchName(dirName)
        branchPath == Join(Join(c.StoreBase, branchesDir), dirName)
        markerPath == Join(branchPath, deletionMarker)
    IN  IF branchName = c.CurrentBranch THEN f
        ELSE IF branchName \in branches THEN Remove(f, markerPath)
        ELSE IF IsFile(f, markerPath)
             THEN LET timestamp == ParseInt(TrimSpace(f[markerPath].data))
                  IN  IF timestamp.ok /\ Since(t, timestamp.value) > gracePeriod
                      THEN RemoveAll(f, branchPath)
                      ELSE f
             ELSE WriteFile(f, markerPath, FormatInt(Unix(t)), FilePerm).fs

RECURSIVE cleanupEntries(_, _, _, _, _)
cleanupEntries(f, c, branches, t, entries) ==
    IF entries = <<>> THEN f
    ELSE LET dirName == Head(entries)
             g == IF ~IsDir(f, Append(Append(c.StoreBase, branchesDir), dirName))
                  THEN f
                  ELSE cleanupBranchDir(f, c, branches, t, dirName)
         IN  cleanupEntries(g, c, branches, t, Tail(entries))

(* variant: the storage root is treated as one more branch directory *)
cleanupDeletedBranches_MarkBase(f, c, branchesOk, branches, t) ==
    LET branchesPath == Join(c.StoreBase, branchesDir)
    IN  IF ~Stat(f, branchesPath) THEN [fs |-> f, err |-> FALSE]
        ELSE IF ~branchesOk THEN [fs |-> f, err |-> TRUE]
        ELSE IF ~IsDir(f, branchesPath) THEN [fs |-> f, err |-> TRUE]
        ELSE [fs  |-> WriteFile(
                          cleanupEntries(f, c, branches, t, ReadDir(f, branchesPath)),
                          Join(c.StoreBase, deletionMarker),
                          FormatInt(Unix(t)), FilePerm).fs,
              err |-> FALSE]

(* variant: no early return when branches/ does not exist *)
cleanupDeletedBranches_NoExistCheck(f, c, branchesOk, branches, t) ==
    LET branchesPath == Join(c.StoreBase, branchesDir)
    IN  IF ~branchesOk THEN [fs |-> f, err |-> TRUE]
        ELSE IF ~IsDir(f, branchesPath) THEN [fs |-> f, err |-> TRUE]
        ELSE [fs  |-> cleanupEntries(f, c, branches, t, ReadDir(f, branchesPath)),
              err |-> FALSE]

(* branchesOk: whether getAllBranchesFunc succeeded *)
(* variant: a failed branch lookup is reported after the entries have been  *)
(* gone through with an empty live set                                      *)
cleanupDeletedBranches_LookupLast(f, c, branchesOk, branches, t) ==
    LET branchesPath == Join(c.StoreBase, branchesDir)
    IN  IF ~Stat(f, branchesPath) THEN [fs |-> f, err |-> FALSE]
        ELSE IF ~IsDir(f, branchesPath) THEN [fs |-> f, err |-> TRUE]
        ELSE [fs  |-> cleanupEntries(f, c, IF branchesOk THEN branches ELSE {},
                                     t, ReadDir(f, branchesPath)),
              err |-> ~branchesOk]

cleanupDeletedBranches(f, c, branchesOk, branches, t) ==
    LET branchesPath == Join(c.StoreBase, branchesDir)
    IN  IF ~Stat(f, branchesPath) THEN [fs |-> f, err |-> FALSE]
        ELSE IF ~branchesOk THEN [fs |-> f, err |-> TRUE]
        ELSE IF ~IsDir(f, branchesPath) THEN [fs |-> f, err |-> TRUE]
        ELSE [fs  |-> cleanupEntries(f, c, branches, t, ReadDir(f, branchesPath)),
              err |-> FALSE]

-----------------------------------------------------------------------------
(* Bounds and the starting states *)

MaxRuns == 2       \* invocations of the wrapper
MaxEdits == 2      \* steps of the user, of git and of the clock
MaxNameLen == 3    \* length of the branch names given to the sanitizer

FA == <<"a", "/", "b">>
FB == <<"%", "2", "F">>
FeatureBranches == {FA, FB}
Branches == FeatureBranches \cup {getDefaultBranch}

StoreBase == loadConfig(getDefaultBranch).StoreBase
BranchesPath == Append(StoreBase, branchesDir)
Loc(b) == loadConfig(b).StoreLocation

ClaudeMd == <<"CLAUDE.md">>
Notes == <<"notes">>

StartTime == 30 * 24 * Hour

Seed(p, data, mode) == [path |-> p, data |-> data, mode |-> mode]

RECURSIVE SeedAll(_, _)
SeedAll(f, seeds) ==
    IF seeds = <<>> THEN f
    ELSE LET sd == Head(seeds)
             m  == MkdirAll(f, Parent(sd.path), DirPerm).fs
         IN  SeedAll(Put(m, sd.path, File(sd.data, sd.mode)), Tail(seeds))

(* a fresh clone: the repository with .git/info, nothing stored yet *)
BareFS ==
    MkdirAll([p \in {<<>>} |-> Dir(DirPerm)],
             RepoRoot \o << <<".git">>, <<"info">> >>, DirPerm).fs

DefaultSeeds ==
    << Seed(Append(StoreBase, ClaudeMd), <<"A">>, DirPerm),
       Seed(StoreBase \o <<Notes, <<"a.txt">> >>, <<"A">>, FilePerm),
       Seed(Append(StoreBase, deletionMarker), <<"x">>, FilePerm),
       Seed(Append(BranchesPath, <<"stray">>), <<"x">>, FilePerm),
       Seed(BranchesPath \o << <<"x">>, deletionMarker, <<"x">> >>,
            <<"x">>, FilePerm) >>

IsolationSeeds ==
    << Seed(Append(Loc(FA), ClaudeMd), <<"A">>, FilePerm),
       Seed(Loc(FA) \o <<Notes, <<"a.txt">> >>, <<"A">>, FilePerm),
       Seed(Append(Loc(FB), ClaudeMd), <<"B">>, FilePerm),
       Seed(Loc(FB) \o <<Notes, <<"b.txt">> >>, <<"B">>, FilePerm),
       Seed(Append(Loc(FB), <<"x">>), <<"B">>, FilePerm) >>

RetentionSeeds ==
    << Seed(Append(StoreBase, ClaudeMd), <<"A">>, FilePerm),
       Seed(Append(Loc(FA), ClaudeMd), <<"B">>, FilePerm),
       Seed(Append(Loc(FA), deletionMarker),
            FormatInt(Unix(StartTime - gracePeriod)), FilePerm),
       Seed(Append(Loc(FB), ClaudeMd), <<"B">>, FilePerm),
       Seed(Append(Loc(FB), deletionMarker), <<"x">>, FilePerm) >>

Scenarios == {<<>>, DefaultSeeds, IsolationSeeds, RetentionSeeds}

NoFS == [p \in {} |-> Dir(DirPerm)]

(* what run() returned: kind "exit" is (code, nil), kind "fatal" is         *)
(* (code, err); "exec" is the process replaced by claude, "running" a run   *)
(* in progress, "killed" a run ended from outside.                          *)
Result(kind, code) == [kind |-> kind, code |-> code]

(* main: log.Fatalf exits with status 1, otherwise os.Exit(exitCode) *)
ExitStatus(res) == IF res.kind = "fatal" THEN 1 ELSE res.code
NoConfig == loadConfig(getDefaultBranch)

(* What the last phase of run() saw and did, and the phase before it: op is *)
(* "syncIn", "syncOut" or "cleanup", pre the file system it started from,   *)
(* live and at the branch set and the clock a cleanup read.  A step of the  *)
(* user in the working tree sets op to "edit".  seen gives, for each        *)
(* directory of branches/ that the retention passes have found missing     *)
(* from the live set ever since, the clock of the first such pass.          *)
(* revived holds the directories that a completed pass found current or     *)
(* live and whose marker it left in place; a pass that writes a marker      *)
(* into a directory takes it out again.                                     *)
NoSeen == [d \in {} |-> 0]

NoLast == [op |-> "none", branch |-> <<>>, err |-> FALSE, pre |-> NoFS,
           live |-> {}, at |-> 0,
           prevOp |-> "none", prevBranch |-> <<>>, prevErr |-> FALSE,
           seen |-> NoSeen, revived |-> {}]

(* a session on a branch ends what the passes had seen of its directory *)
Forget(seen, currentBranch) ==
    [d \in {e \in DOMAIN seen : unsanitizeBranchName(e) # currentBranch}
        |-> seen[d]]

Phase(op, c, err, pre, live, at) ==
    [op |-> op, branch |-> c.CurrentBranch, err |-> err, pre |-> pre,
     live |-> live, at |-> at,
     prevOp |-> last.op, prevBranch |-> last.branch, prevErr |-> last.err,
     seen |-> Forget(last.seen, c.CurrentBranch), revived |-> last.revived]

(* what a retention pass from pre to post adds to seen: the directories it  *)
(* went through, found neither current nor live and left in place           *)
Observed(seen, pre, post, c, err, live, at) ==
    IF err \/ ~IsDir(pre, BranchesPath) THEN Forget(seen, c.CurrentBranch)
    ELSE [d \in {e \in ChildNames(pre, BranchesPath) :
                    /\ IsDir(pre, Append(BranchesPath, e))
                    /\ unsanitizeBranchName(e) # c.CurrentBranch
                    /\ unsanitizeBranchName(e) \notin live
                    /\ Stat(post, Append(BranchesPath, e))}
            |-> IF d \in DOMAIN seen THEN seen[d] ELSE at]

Revived(revived, pre, post, c, err, live) ==
    IF err \/ ~IsDir(pre, BranchesPath) THEN revived
    ELSE LET marker(d) == Append(Append(BranchesPath, d), deletionMarker)
             dirs == {e \in ChildNames(pre, BranchesPath) :
                         IsDir(pre, Append(BranchesPath, e))}
         IN  (revived \ {d \in dirs : /\ ~Stat(pre, marker(d))
                                       /\ Stat(post, marker(d))})
             \cup {d \in dirs :
                      /\ \/ unsanitizeBranchName(d) = c.CurrentBranch
                         \/ unsanitizeBranchName(d) \in live
                      /\ Stat(pre, marker(d))
                      /\ Stat(post, marker(d))}

SanInit ==
    /\ sanIn = <<>>
    /\ sanSeg = <<>>
    /\ sanBack = <<>>
    /\ sanLoc = <<>>
    /\ sanPc = "off"

SysInit ==
    /\ fs \in {SeedAll(BareFS, sc) : sc \in Scenarios}
    /\ gitBranches \in {{getDefaultBranch}, Branches}
    /\ head \in Branches
    /\ inRepo = TRUE
    /\ now = StartTime
    /\ pc = "idle"
    /\ cfg = NoConfig
    /\ claudeExit = 0
    /\ outcome = Result("none", 0)
    /\ last = NoLast
    /\ runs = 0
    /\ edits = 0

NoCall == [op |-> "none", pre |-> NoFS, item |-> <<>>, items |-> <<>>,
           err |-> FALSE]

ExInit ==
    /\ exCalls = <<>>
    /\ exLast = NoCall

Init == SysInit /\ SanInit /\ ExInit

-----------------------------------------------------------------------------
(* run() *)

(* variant: the default storage is synced in although loadConfig failed *)
PassThrough_Syncs ==
    /\ pc = "idle" /\ runs < MaxRuns
    /\ ~inRepo \/ head = <<>>
    /\ runs' = runs + 1
    /\ fs' = syncIn(fs, loadConfig(getDefaultBranch)).fs
    /\ \E found \in BOOLEAN :
         outcome' = IF found THEN Result("exec", 0) ELSE Result("fatal", 0)
    /\ last' = [NoLast EXCEPT !.op = "exec", !.seen = last.seen,
                      !.revived = last.revived]
    /\ UNCHANGED <<gitBranches, head, inRepo, now, pc, cfg, claudeExit, edits>>

(* loadConfig fails: execClaude replaces the process, nothing is synced *)
PassThrough ==
    /\ pc = "idle" /\ runs < MaxRuns
    /\ ~inRepo \/ head = <<>>
    /\ runs' = runs + 1
    /\ \E found \in BOOLEAN :                     \* exec.LookPath("claude")
         outcome' = IF found THEN Result("exec", 0) ELSE Result("fatal", 0)
    /\ last' = [NoLast EXCEPT !.op = "exec", !.seen = last.seen,
                      !.revived = last.revived]
    /\ UNCHANGED <<fs, gitBranches, head, inRepo, now, pc, cfg, claudeExit,
                   edits>>

(* variant: a failed syncIn is logged and the wrapped program runs anyway *)
SyncIn_Tolerant ==
    /\ pc = "idle" /\ runs < MaxRuns
    /\ inRepo /\ head # <<>>
    /\ LET c == loadConfig(head)
           r == syncIn(fs, c)
       IN  /\ cfg' = c
           /\ fs' = r.fs
           /\ last' = Phase("syncIn", c, r.err, fs, {}, 0)
           /\ pc' = "claude"
           /\ outcome' = Result("running", 0)
    /\ runs' = runs + 1
    /\ UNCHANGED <<gitBranches, head, inRepo, now, claudeExit, edits>>

(* loadConfig succeeds and syncIn runs *)
SyncIn ==
    /\ pc = "idle" /\ runs < MaxRuns
    /\ inRepo /\ head # <<>>
    /\ LET c == loadConfig(head)
           r == syncIn(fs, c)
       IN  /\ cfg' = c
           /\ fs' = r.fs
           /\ last' = Phase("syncIn", c, r.err, fs, {}, 0)
           /\ pc' = IF r.err THEN "idle" ELSE "claude"
           /\ outcome' = IF r.err THEN Result("fatal", 0)
                                   ELSE Result("running", 0)
    /\ runs' = runs + 1
    /\ UNCHANGED <<gitBranches, head, inRepo, now, claudeExit, edits>>

(* variant: a non-zero exit code of the wrapped program ends the run *)
RunClaude_StopOnFailure ==
    /\ pc = "claude"
    /\ \E code \in {0, 1} :
         /\ claudeExit' = code
         /\ pc' = IF code = 0 THEN "syncout" ELSE "idle"
         /\ outcome' = IF code = 0 THEN outcome ELSE Result("fatal", code)
    /\ UNCHANGED <<fs, gitBranches, head, inRepo, now, cfg, last, runs, edits>>

(* variant: the retention pass follows the wrapped program at once *)
RunClaude_SkipSyncOut ==
    /\ pc = "claude"
    /\ \E code \in {0, 1} : claudeExit' = code
    /\ pc' = "cleanup"
    /\ UNCHANGED <<fs, gitBranches, head, inRepo, now, cfg, outcome, last,
                   runs, edits>>

(* runClaude returns the exit code of the wrapped program *)
RunClaude ==
    /\ pc = "claude"
    /\ \E code \in {0, 1} : claudeExit' = code
    /\ pc' = "syncout"
    /\ UNCHANGED <<fs, gitBranches, head, inRepo, now, cfg, outcome, last,
                   runs, edits>>

SyncOut ==
    /\ pc = "syncout"
    /\ LET r == syncOut(fs, cfg)
       IN  /\ fs' = r.fs
           /\ last' = Phase("syncOut", cfg, r.err, fs, {}, 0)
           /\ pc' = IF r.err THEN "idle" ELSE "cleanup"
           /\ outcome' = IF r.err THEN Result("fatal", claudeExit)
                                   ELSE outcome
    /\ UNCHANGED <<gitBranches, head, inRepo, now, cfg, claudeExit, runs,
                   edits>>

(* variant: an error of cleanupDeletedBranches is returned by run() *)
Cleanup_Fatal ==
    /\ pc = "cleanup"
    /\ \E branchesOk \in BOOLEAN :
         LET r == cleanupDeletedBranches(fs, cfg, branchesOk, gitBranches, now)
         IN  /\ fs' = r.fs
             /\ last' = [Phase("cleanup", cfg, r.err, fs, gitBranches, now)
                          EXCEPT !.seen = Observed(last.seen, fs, r.fs, cfg,
                                                   r.err, gitBranches, now),
                                 !.revived = Revived(last.revived, fs, r.fs,
                                                     cfg, r.err, gitBranches)]
             /\ outcome' = IF r.err THEN Result("fatal", claudeExit)
                                     ELSE Result("exit", claudeExit)
    /\ pc' = "idle"
    /\ UNCHANGED <<gitBranches, head, inRepo, now, cfg, claudeExit, runs,
                   edits>>

Cleanup ==
    /\ pc = "cleanup"
    /\ \E branchesOk \in BOOLEAN :
         LET r == cleanupDeletedBranches(fs, cfg, branchesOk, gitBranches, now)
         IN  /\ fs' = r.fs
             /\ last' = [Phase("cleanup", cfg, r.err, fs, gitBranches, now)
                          EXCEPT !.seen = Observed(last.seen, fs, r.fs, cfg,
                                                   r.err, gitBranches, now),
                                 !.revived = Revived(last.revived, fs, r.fs,
                                                     cfg, r.err, gitBranches)]
    /\ pc' = "idle"
    /\ outcome' = Result("exit", claudeExit)
    /\ UNCHANGED <<gitBranches, head, inRepo, now, cfg, claudeExit, runs,
                   edits>>

(* the operating system ends the process while the wrapped program runs *)
Kill ==
    /\ pc = "claude"
    /\ pc' = "idle"
    /\ outcome' = Result("killed", 0)
    /\ UNCHANGED <<fs, gitBranches, head, inRepo, now, cfg, claudeExit, last,
                   runs, edits>>

-----------------------------------------------------------------------------
(* the user, git and the clock *)

Edited == [NoLast EXCEPT !.op = "edit", !.seen = last.seen,
                      !.revived = last.revived]

(* git checkout <b>, git checkout -b <b> or git checkout --orphan <b> *)
Checkout ==
    /\ pc = "idle" /\ edits < MaxEdits
    /\ \E b \in Branches :
         /\ b # head
         /\ head' = b
         /\ gitBranches' \in {gitBranches, gitBranches \cup {b}}
    /\ edits' = edits + 1
    /\ UNCHANGED <<fs, inRepo, now, pc, cfg, claudeExit, outcome, last, runs>>

(* git branch -D <b> *)
DeleteBranch ==
    /\ pc = "idle" /\ edits < MaxEdits
    /\ \E b \in gitBranches \ {head, getDefaultBranch} :
         gitBranches' = gitBranches \ {b}
    /\ edits' = edits + 1
    /\ UNCHANGED <<fs, head, inRepo, now, pc, cfg, claudeExit, outcome, last,
                   runs>>

Tick ==
    /\ pc = "idle" /\ edits < MaxEdits
    /\ \E d \in {1, gracePeriod} : now' = now + d
    /\ edits' = edits + 1
    /\ UNCHANGED <<fs, gitBranches, head, inRepo, pc, cfg, claudeExit, outcome,
                   last, runs>>

(* the user (or the wrapped program) writes a personal file *)
UserWrite ==
    /\ pc \in {"idle", "claude"} /\ edits < MaxEdits
    /\ \E name \in {ClaudeMd, Notes}, data \in {<<"c">>} :
         LET r == WriteFile(fs, Append(RepoRoot, name), data, FilePerm)
         IN  /\ ~r.err
             /\ r.fs # fs
             /\ fs' = r.fs
    /\ edits' = edits + 1
    /\ last' = Edited
    /\ UNCHANGED <<gitBranches, head, inRepo, now, pc, cfg, claudeExit,
                   outcome, runs>>

(* the user removes a personal file or directory *)
UserRemove ==
    /\ pc = "claude" /\ edits < MaxEdits
    /\ \E name \in {ClaudeMd, Notes} :
         /\ Stat(fs, Append(RepoRoot, name))
         /\ fs' = RemoveAll(fs, Append(RepoRoot, name))
    /\ edits' = edits + 1
    /\ last' = Edited
    /\ UNCHANGED <<gitBranches, head, inRepo, now, pc, cfg, claudeExit,
                   outcome, runs>>

(* the user rewrites .git/info/exclude by hand, with one anchored or one    *)
(* nested path                                                              *)
UserLines == { <<"/", "CLAUDE.md", "\n">>, <<"notes", "/", "a.txt", "\n">> }

UserExclude ==
    /\ pc = "claude" /\ edits < MaxEdits
    /\ \E data \in UserLines :
         LET r == WriteFile(fs, excludePathOf(RepoRoot), data, FilePerm)
         IN  /\ ~r.err
             /\ r.fs # fs
             /\ fs' = r.fs
    /\ edits' = edits + 1
    /\ last' = Edited
    /\ UNCHANGED <<gitBranches, head, inRepo, now, pc, cfg, claudeExit,
                   outcome, runs>>

(* the user leaves the repository, detaches HEAD, or comes back *)
LeaveRepo ==
    /\ pc = "idle" /\ edits < MaxEdits
    /\ \/ inRepo' = ~inRepo /\ head' = head
       \/ inRepo' = inRepo /\ head # <<>> /\ head' = <<>>
    /\ edits' = edits + 1
    /\ UNCHANGED <<fs, gitBranches, now, pc, cfg, claudeExit, outcome, last,
                   runs>>

Next ==
    \/ (PassThrough /\ UNCHANGED <<sanVars, exVars>>)
    \/ (SyncIn /\ UNCHANGED <<sanVars, exVars>>)
    \/ (RunClaude /\ UNCHANGED <<sanVars, exVars>>)
    \/ (SyncOut /\ UNCHANGED <<sanVars, exVars>>)
    \/ (Cleanup /\ UNCHANGED <<sanVars, exVars>>)
    \/ (Kill /\ UNCHANGED <<sanVars, exVars>>)
    \/ (Checkout /\ UNCHANGED <<sanVars, exVars>>)
    \/ (DeleteBranch /\ UNCHANGED <<sanVars, exVars>>)
    \/ (Tick /\ UNCHANGED <<sanVars, exVars>>)
    \/ (UserWrite /\ UNCHANGED <<sanVars, exVars>>)
    \/ (UserRemove /\ UNCHANGED <<sanVars, exVars>>)
    \/ (UserExclude /\ UNCHANGED <<sanVars, exVars>>)
    \/ (LeaveRepo /\ UNCHANGED <<sanVars, exVars>>)

Spec == Init /\ [][Next]_vars

-----------------------------------------------------------------------------
(* The sanitizer and the resolver, applied to every short branch name *)

SanAlphabet == {"/", "%", "2", "5", "F", "a"}

SanNames ==
    UNION {[1..n -> SanAlphabet] : n \in 1..MaxNameLen} \cup {getDefaultBranch}

SanStart ==
    /\ SysInit
    /\ fs = BareFS
    /\ gitBranches = {getDefaultBranch}
    /\ head = getDefaultBranch
    /\ sanIn \in SanNames
    /\ sanSeg = <<>>
    /\ sanBack = <<>>
    /\ sanLoc = <<>>
    /\ sanPc = "in"
    /\ ExInit

Sanitize ==
    /\ sanPc = "in"
    /\ sanSeg' = sanitizeBranchName(sanIn)
    /\ sanPc' = "seg"
    /\ UNCHANGED <<sanIn, sanBack, sanLoc>>

Unsanitize ==
    /\ sanPc = "seg"
    /\ sanBack' = unsanitizeBranchName(sanSeg)
    /\ sanPc' = "back"
    /\ UNCHANGED <<sanIn, sanSeg, sanLoc>>

Resolve ==
    /\ sanPc = "back"
    /\ sanLoc' = loadConfig(sanIn).StoreLocation
    /\ sanPc' = "loc"
    /\ UNCHANGED <<sanIn, sanSeg, sanBack>>

SanNext ==
    \/ (Sanitize /\ UNCHANGED <<sysVars, exVars>>)
    \/ (Unsanitize /\ UNCHANGED <<sysVars, exVars>>)
    \/ (Resolve /\ UNCHANGED <<sysVars, exVars>>)

SanSpec == SanStart /\ [][SanNext]_vars

-----------------------------------------------------------------------------
(* The exclude list manager, applied to small ignore files *)

MaxLines == 3      \* lines of the ignore file at the start
MaxAdds == 2       \* add calls

ExLines ==
    { ClaudeMd, <<"notes", "/">>, <<"stray">>, <<" ", "CLAUDE.md">>,
      <<"#", "x">>, <<"*">>, <<>> }

ExEntries == {ClaudeMd, Notes, <<"stray">>}

RECURSIVE Unlines(_)
Unlines(ls) ==
    IF ls = <<>> THEN <<>> ELSE Head(ls) \o <<"\n">> \o Unlines(Tail(ls))

ExLineSeqs ==
    UNION { {q \in [1..n -> ExLines] :
                \A i, j \in 1..n : q[i] = q[j] => i = j} : n \in 0..MaxLines }

(* each text with and without the newline after its last line *)
ExTexts ==
    {Unlines(q) : q \in ExLineSeqs}
       \cup {TrimSuffix(Unlines(q), <<"\n">>) : q \in ExLineSeqs}

(* a repository with CLAUDE.md and notes/a.txt, and no .git/info *)
ExRepo ==
    SeedAll(MkdirAll([p \in {<<>>} |-> Dir(DirPerm)],
                     Append(RepoRoot, <<".git">>), DirPerm).fs,
            << Seed(Append(RepoRoot, ClaudeMd), <<"A">>, FilePerm),
               Seed(RepoRoot \o <<Notes, <<"a.txt">> >>, <<"A">>, FilePerm) >>)

ExInfo == Parent(excludePathOf(RepoRoot))

ExFileSystems ==
    LET withInfo == MkdirAll(ExRepo, ExInfo, DirPerm).fs
    IN  {ExRepo, withInfo, Put(ExRepo, ExInfo, File(<<>>, FilePerm)),
         Put(withInfo, excludePathOf(RepoRoot), Dir(DirPerm))}
           \cup {Put(withInfo, excludePathOf(RepoRoot), File(t, FilePerm)) :
                    t \in ExTexts}

ExStart ==
    /\ fs \in ExFileSystems
    /\ gitBranches = {getDefaultBranch}
    /\ head = getDefaultBranch
    /\ inRepo = TRUE
    /\ now = StartTime
    /\ pc = "idle"
    /\ cfg = NoConfig
    /\ claudeExit = 0
    /\ outcome = Result("none", 0)
    /\ last = NoLast
    /\ runs = 0
    /\ edits = 0
    /\ SanInit
    /\ ExInit

exFrame == <<gitBranches, head, inRepo, now, pc, cfg, claudeExit, outcome,
             last, runs, edits, sanVars>>

ExAdd ==
    /\ Len(exCalls) < MaxAdds
    /\ \E item \in ExEntries :
          LET r == addToExclude(fs, RepoRoot, item)
          IN  /\ fs' = r.fs
              /\ exCalls' = Append(exCalls, [item |-> item, err |-> r.err])
              /\ exLast' = [op |-> "add", pre |-> fs, item |-> item,
                            items |-> <<>>, err |-> r.err]
    /\ UNCHANGED exFrame

ExRead ==
    /\ LET r == readExcludeFile(fs, RepoRoot)
       IN  exLast' = [op |-> "read", pre |-> fs, item |-> <<>>,
                      items |-> r.items, err |-> r.err]
    /\ UNCHANGED <<fs, exCalls, exFrame>>

ExNext == ExAdd \/ ExRead

ExSpec == ExStart /\ [][ExNext]_vars

-----------------------------------------------------------------------------
(* The retention pass and a sync pass, applied in either order *)

(* the working tree: a managed CLAUDE.md, and in OwnBranches also a managed *)
(* directory of the repository that is named branches                       *)
PlainWork ==
    << Seed(Append(RepoRoot, ClaudeMd), <<"c">>, FilePerm),
       Seed(excludePathOf(RepoRoot), <<"CLAUDE.md", "\n">>, FilePerm) >>

OwnBranchesWork ==
    << Seed(Append(RepoRoot, ClaudeMd), <<"c">>, FilePerm),
       Seed(RepoRoot \o <<branchesDir, <<"x">>, <<"a.txt">> >>, <<"c">>,
            FilePerm),
       Seed(excludePathOf(RepoRoot),
            <<"CLAUDE.md", "\n", "branches", "\n">>, FilePerm) >>

OrdFileSystems ==
    {SeedAll(SeedAll(BareFS, sc), w) :
        sc \in Scenarios, w \in {PlainWork, OwnBranchesWork}}

OrdStart ==
    /\ fs \in OrdFileSystems
    /\ gitBranches \in {{getDefaultBranch}, Branches}
    /\ head \in Branches
    /\ inRepo = TRUE
    /\ now \in {StartTime, StartTime + 1}
    /\ pc = "idle"
    /\ cfg = loadConfig(head)
    /\ claudeExit = 0
    /\ outcome = Result("none", 0)
    /\ last = NoLast
    /\ runs = 0
    /\ edits = 0
    /\ SanInit
    /\ ExInit

(* one pass: retain is cleanupDeletedBranches with the live set at hand *)
OrdApply(op, f) ==
    IF op = "retain"
    THEN cleanupDeletedBranches(f, cfg, TRUE, gitBranches, now)
    ELSE IF op = "syncOut" THEN syncOut(f, cfg)
    ELSE syncIn(f, cfg)

(* a pair is the retention pass and one sync pass, in either order *)
OrdTurn(op) ==
    /\ pc \in {"idle", "one"}
    /\ pc = "one" => (op = "retain") # (last.op = "retain")

(* The first pass of a pair records the file system it started from in     *)
(* last.pre; the second pass keeps it.                                      *)
OrdRecord(op, err) ==
    IF pc = "idle"
    THEN [NoLast EXCEPT !.op = op, !.err = err, !.pre = fs,
                        !.branch = cfg.CurrentBranch]
    ELSE [last EXCEPT !.op = op, !.err = err, !.prevOp = last.op,
                      !.prevErr = last.err]

ordFrame == <<gitBranches, head, inRepo, now, cfg, claudeExit, outcome, runs,
              edits, sanVars, exVars>>

OrdRetain ==
    /\ OrdTurn("retain")
    /\ LET r == OrdApply("retain", fs)
       IN  fs' = r.fs /\ last' = OrdRecord("retain", r.err)
    /\ pc' = IF pc = "idle" THEN "one" ELSE "two"
    /\ UNCHANGED ordFrame

OrdSyncOut ==
    /\ OrdTurn("syncOut")
    /\ LET r == OrdApply("syncOut", fs)
       IN  fs' = r.fs /\ last' = OrdRecord("syncOut", r.err)
    /\ pc' = IF pc = "idle" THEN "one" ELSE "two"
    /\ UNCHANGED ordFrame

OrdSyncIn ==
    /\ OrdTurn("syncIn")
    /\ LET r == OrdApply("syncIn", fs)
       IN  fs' = r.fs /\ last' = OrdRecord("syncIn", r.err)
    /\ pc' = IF pc = "idle" THEN "one" ELSE "two"
    /\ UNCHANGED ordFrame

OrdNext == OrdRetain \/ OrdSyncOut \/ OrdSyncIn

OrdSpec == OrdStart /\ [][OrdNext]_vars

-----------------------------------------------------------------------------
(* Two sessions without edits on two branches that share the working tree:  *)
(* sync-in and sync-out on one branch, git checkout, sync-in and sync-out on *)
(* the other                                                                 *)

(* a default storage whose entries are named `#x`, `*` and ` x` *)
OddNameSeeds ==
    << Seed(Append(StoreBase, ClaudeMd), <<"A">>, FilePerm),
       Seed(Append(StoreBase, <<"#", "x">>), <<"A">>, FilePerm),
       Seed(Append(StoreBase, <<"*">>), <<"A">>, FilePerm),
       Seed(Append(StoreBase, <<" ", "x">>), <<"A">>, FilePerm) >>

SeqStart ==
    /\ fs \in {SeedAll(BareFS, sc) : sc \in Scenarios \cup {OddNameSeeds}}
    /\ gitBranches \in {{getDefaultBranch}, Branches}
    /\ head \in Branches
    /\ inRepo = TRUE
    /\ now = StartTime
    /\ pc = "idle"
    /\ cfg = NoConfig
    /\ claudeExit = 0
    /\ outcome = Result("none", 0)
    /\ last = NoLast
    /\ runs = 0
    /\ edits = 0
    /\ SanInit
    /\ ExInit

(* last.pre is the file system before the first session, last.prevBranch    *)
(* the branch of the first session, last.err whether a pass has failed      *)
SeqRecord(op, c, err) ==
    IF pc = "idle"
    THEN [NoLast EXCEPT !.op = op, !.err = err, !.pre = fs,
                        !.branch = c.CurrentBranch,
                        !.prevBranch = c.CurrentBranch]
    ELSE [last EXCEPT !.op = op, !.err = last.err \/ err,
                      !.branch = c.CurrentBranch, !.prevOp = last.op]

seqFrame == <<gitBranches, inRepo, now, claudeExit, outcome, runs,
              sanVars, exVars>>

SeqSyncIn ==
    /\ pc \in {"idle", "checkedOut"}
    /\ LET c == loadConfig(head)
           r == syncIn(fs, c)
       IN  /\ cfg' = c
           /\ fs' = r.fs
           /\ last' = SeqRecord("syncIn", c, r.err)
    /\ pc' = IF pc = "idle" THEN "first" ELSE "second"
    /\ UNCHANGED <<head, edits, seqFrame>>

SeqSyncOut ==
    /\ pc \in {"first", "second"}
    /\ LET r == syncOut(fs, cfg)
       IN  /\ fs' = r.fs
           /\ last' = SeqRecord("syncOut", cfg, r.err)
    /\ pc' = IF pc = "first" THEN "firstOut" ELSE "secondOut"
    /\ UNCHANGED <<head, cfg, edits, seqFrame>>

(* git checkout <b>: ignored files of the working tree stay where they are *)
SeqCheckout ==
    /\ pc = "firstOut"
    /\ \E b \in Branches \ {head} : head' = b
    /\ pc' = "checkedOut"
    /\ UNCHANGED <<fs, cfg, last, edits, seqFrame>>

(* during a session the user deletes a file inside the directory notes/ *)
SeqRemoveInside ==
    /\ pc \in {"first", "second"} /\ edits < MaxEdits
    /\ \E name \in {<<"a.txt">>, <<"b.txt">>} :
         /\ IsFile(fs, RepoRoot \o <<Notes, name>>)
         /\ fs' = RemoveAll(fs, RepoRoot \o <<Notes, name>>)
    /\ edits' = edits + 1
    /\ UNCHANGED <<head, cfg, pc, last, seqFrame>>

(* the entries of the default storage that initializeBranchStorage copies *)
InitItems(f, c) ==
    SelectSeq(listDir(f, c.StoreBase).items,
              LAMBDA item : item # branchesDir /\ item # deletionMarker)

(* initializeBranchStorage when the operating system fails the copy of the  *)
(* entry after the first k (the source cannot be opened): the directory has *)
(* been created, k entries have been copied, the error is returned          *)
initializeBranchStorageInterrupted(f, c, k) ==
    LET m == MkdirAll(f, c.StoreLocation, DirPerm)
    IN  [fs  |-> initializeCopyItems(m.fs, c,
                                     SubSeq(InitItems(m.fs, c), 1, k)).fs,
         err |-> TRUE]

(* a sync-in on a feature branch without storage whose initialization fails *)
(* part of the way; syncIn returns the error at once                        *)
SeqInitFails ==
    /\ pc = "idle"
    /\ head # getDefaultBranch
    /\ LET c == loadConfig(head)
       IN  /\ ~Stat(fs, c.StoreLocation)
           /\ IsDir(fs, c.StoreBase)
           /\ \E k \in 0..(Len(InitItems(fs, c)) - 1) :
                 LET r == initializeBranchStorageInterrupted(fs, c, k)
                 IN  /\ cfg' = c
                     /\ fs' = r.fs
                     /\ last' = [NoLast EXCEPT !.op = "initFail",
                                               !.err = r.err, !.pre = fs,
                                               !.branch = c.CurrentBranch,
                                               !.prevBranch = c.CurrentBranch]
    /\ pc' = "initFailed"
    /\ UNCHANGED <<head, edits, seqFrame>>

(* the next sync-in on the same branch; last.pre stays the file system      *)
(* before the failed one                                                    *)
SeqRetry ==
    /\ pc = "initFailed"
    /\ LET r == syncIn(fs, cfg)
       IN  /\ fs' = r.fs
           /\ last' = [last EXCEPT !.op = "syncIn", !.err = r.err,
                                   !.prevOp = last.op, !.prevErr = last.err]
    /\ pc' = "retried"
    /\ UNCHANGED <<head, cfg, edits, seqFrame>>

SeqNext ==
    \/ SeqSyncIn \/ SeqSyncOut \/ SeqCheckout \/ SeqRemoveInside
    \/ SeqInitFails \/ SeqRetry

SeqSpec == SeqStart /\ [][SeqNext]_vars

-----------------------------------------------------------------------------
(* Properties *)

UserNames(f, loc) == ChildNames(f, loc) \ {deletionMarker, branchesDir}

ExcludeLines(f) ==
    IF IsFile(f, excludePathOf(RepoRoot))
    THEN ScanLines(f[excludePathOf(RepoRoot)].data) ELSE <<>>

CountLines(f, entry) ==
    Cardinality({i \in 1..Len(ExcludeLines(f)) : ExcludeLines(f)[i] = entry})

(* C1 Isolation: when a successful sync-in for branch B directly follows a   *)
(* successful sync-in for another branch A, every name whose content differs *)
(* between the two storages is in the working tree exactly as B's storage    *)
(* holds it, with nothing left of A's.                                       *)
C1_Isolation ==
    (/\ last.op = "syncIn" /\ ~last.err
     /\ last.prevOp = "syncIn" /\ ~last.prevErr
     /\ last.prevBranch # last.branch)
    => \A name \in UserNames(fs, Loc(last.branch))
                     \cap UserNames(fs, Loc(last.prevBranch)) :
          Tree(fs, Append(Loc(last.prevBranch), name))
              # Tree(fs, Append(Loc(last.branch), name))
          => Tree(fs, Append(RepoRoot, name))
                 = Tree(fs, Append(Loc(last.branch), name))

(* C2 Round-trip idempotence: a successful sync-out that directly follows a  *)
(* successful sync-in of the same session, with no edit in between, leaves   *)
(* the storage as the sync-in saw it and the working tree unchanged, and the *)
(* ignore list holds each stored entry on exactly one line.                  *)
C2_RoundTrip ==
    (/\ last.op = "syncOut" /\ ~last.err
     /\ last.prevOp = "syncIn" /\ ~last.prevErr
     /\ last.prevBranch = last.branch)
    => /\ Entries(fs, Loc(last.branch)) = Entries(last.pre, Loc(last.branch))
       /\ \A name \in UserNames(fs, RepoRoot) \ {<<".git">>} :
              Tree(fs, Append(RepoRoot, name))
                  = Tree(last.pre, Append(RepoRoot, name))
       /\ \A name \in UserNames(fs, Loc(last.branch)) :
              CountLines(fs, name) = 1

(* C3 Never self-clean: a retention pass leaves the storage of the session's *)
(* current branch in place, with the same content and no new, changed or     *)
(* removed deletion marker, whether or not the branch is live.               *)
C3_NeverSelfClean ==
    last.op = "cleanup" =>
        LET loc    == Loc(last.branch)
            marker == Append(loc, deletionMarker)
        IN  Stat(last.pre, loc) =>
              /\ Stat(fs, loc)
              /\ Stat(fs, marker) = Stat(last.pre, marker)
              /\ Stat(fs, marker) => fs[marker] = last.pre[marker]
              /\ \A name \in UserNames(last.pre, loc) :
                     Tree(fs, Append(loc, name)) = Tree(last.pre, Append(loc, name))

C3_Witness ==
    /\ last.op = "cleanup" /\ ~last.err
    /\ last.branch = FA /\ FA \notin last.live
    /\ Stat(last.pre, Loc(FA)) /\ Stat(fs, Loc(FA))
    /\ fs # last.pre

(* C4 Grace-period boundary: in a retention pass that ran, a directory of a  *)
(* branch that is neither current nor live and whose marker parses is gone   *)
(* afterwards exactly when the marker is more than 7 days old, and is        *)
(* otherwise left as it was, marker included.                                *)
MarkerAge(f, marker, t) ==
    t - ParseInt(TrimSpace(f[marker].data)).value * TicksPerSecond

Expirable(d) ==
    /\ IsDir(last.pre, Append(BranchesPath, d))
    /\ unsanitizeBranchName(d) # last.branch
    /\ unsanitizeBranchName(d) \notin last.live
    /\ IsFile(last.pre, Append(Append(BranchesPath, d), deletionMarker))
    /\ ParseInt(TrimSpace(
           last.pre[Append(Append(BranchesPath, d), deletionMarker)].data)).ok

SevenDays == 7 * 24 * 60 * 60 * TicksPerSecond

C4_GraceBoundary ==
    (last.op = "cleanup" /\ ~last.err) =>
        \A d \in ChildNames(last.pre, BranchesPath) :
            Expirable(d) =>
                LET dir == Append(BranchesPath, d)
                    age == MarkerAge(last.pre, Append(dir, deletionMarker), last.at)
                IN  /\ ~Stat(fs, dir) <=> age > SevenDays
                    /\ Stat(fs, dir) => Tree(fs, dir) = Tree(last.pre, dir)

C4_Witness ==
    /\ last.op = "cleanup" /\ ~last.err
    /\ \E d \in ChildNames(last.pre, BranchesPath) :
          /\ Expirable(d)
          /\ MarkerAge(last.pre, Append(Append(BranchesPath, d), deletionMarker),
                       last.at) = SevenDays
          /\ Stat(fs, Append(Append(BranchesPath, d), deletionMarker))

(* C5 Revival: after a retention pass that ran, every branch directory that  *)
(* held a marker and whose branch is live has no marker and is otherwise     *)
(* unchanged, whichever branch the session is on.                            *)
C5_Revival ==
    (last.op = "cleanup" /\ ~last.err) =>
        \A d \in ChildNames(last.pre, BranchesPath) :
            LET dir == Append(BranchesPath, d)
            IN  (/\ IsDir(last.pre, dir)
                 /\ Stat(last.pre, Append(dir, deletionMarker))
                 /\ unsanitizeBranchName(d) \in last.live)
                => /\ ~Stat(fs, Append(dir, deletionMarker))
                   /\ \A name \in UserNames(last.pre, dir) :
                          Tree(fs, Append(dir, name))
                              = Tree(last.pre, Append(dir, name))

(* C6 Initialization at most once: a sync-in that finds the session's        *)
(* storage location present changes nothing under the storage root, so what  *)
(* a feature branch stored is never replaced by the default storage's.       *)
C6_InitOnce ==
    (last.op = "syncIn" /\ Stat(last.pre, Loc(last.branch)))
    => Tree(fs, HomeDir) = Tree(last.pre, HomeDir)

C6_Witness ==
    /\ last.op = "syncIn" /\ ~last.err /\ last.branch = FA
    /\ Stat(last.pre, Loc(FA))
    /\ IsFile(fs, Append(StoreBase, ClaudeMd))
    /\ IsFile(fs, Append(Loc(FA), ClaudeMd))
    /\ fs[Append(StoreBase, ClaudeMd)].data # fs[Append(Loc(FA), ClaudeMd)].data

(* C7 First initialization: a successful sync-in on a feature branch whose   *)
(* storage location was absent leaves there exactly the default storage's    *)
(* entries other than `branches` and `.deleted_at`, each as the default      *)
(* storage holds it (none when there was no default storage), and leaves     *)
(* the default storage's own entries as they were.                           *)
C7_FirstInit ==
    (/\ last.op = "syncIn" /\ ~last.err
     /\ last.branch # getDefaultBranch
     /\ ~Stat(last.pre, Loc(last.branch)))
    => LET loc == Loc(last.branch)
       IN  /\ IsDir(fs, loc)
           /\ ChildNames(fs, loc)
                  = ChildNames(last.pre, StoreBase) \ {branchesDir, deletionMarker}
           /\ \A name \in ChildNames(fs, loc) :
                  Tree(fs, Append(loc, name))
                      = Tree(last.pre, Append(StoreBase, name))
           /\ ChildNames(fs, StoreBase) \ {branchesDir}
                  = ChildNames(last.pre, StoreBase) \ {branchesDir}
           /\ \A name \in ChildNames(last.pre, StoreBase) \ {branchesDir} :
                  Tree(fs, Append(StoreBase, name))
                      = Tree(last.pre, Append(StoreBase, name))

C7_Witness ==
    /\ last.op = "syncIn" /\ ~last.err /\ last.branch = FA
    /\ ~Stat(last.pre, Loc(FA))
    /\ Stat(last.pre, Append(StoreBase, deletionMarker))
    /\ Stat(last.pre, BranchesPath)
    /\ ChildNames(fs, Loc(FA)) = {ClaudeMd, Notes}

(* C8 Sanitizer round trip: unsanitizing the sanitized name gives the name   *)
(* back, for every branch name over "/", "%", "2", "5", "F" and a letter.    *)
C8_SanitizeRoundTrip ==
    sanPc \in {"back", "loc"} => sanBack = sanIn

C8_Witness ==
    /\ sanPc = "back"
    /\ sanIn = <<"%", "2", "F">>
    /\ sanBack = sanIn

(* C9 Sanitizer safety: a sanitized name holds no "/", and no other branch   *)
(* name is sanitized to the same directory name.                             *)
C9_SanitizeSafe ==
    sanPc \in {"seg", "back", "loc"} =>
        /\ "/" \notin SeqToSet(sanSeg)
        /\ \A y \in SanNames \ {sanIn} : sanitizeBranchName(y) # sanSeg

C9_Witness ==
    /\ sanPc = "seg"
    /\ sanIn = <<"/">>
    /\ sanSeg = <<"%", "2", "F">>

Changed(f, g) ==
    {p \in DOMAIN f \cup DOMAIN g :
        p \notin DOMAIN f \/ p \notin DOMAIN g \/ f[p] # g[p]}

(* everything at src in f is at dst in g: same kind, and for a file the     *)
(* same bytes and permission bits                                           *)
CopiedTo(f, src, g, dst) ==
    /\ Stat(f, src)
    /\ \A r \in DOMAIN Tree(f, src) :
          /\ (dst \o r) \in DOMAIN g
          /\ g[dst \o r].kind = f[src \o r].kind
          /\ f[src \o r].kind = "file" => g[dst \o r] = f[src \o r]

(* the managed entries the read of a phase returned *)
Managed(f) == SeqToSet(readExcludeFile(f, RepoRoot).items)

C12_Pruning ==
    (last.op = "syncOut" /\ ~last.err) =>
        LET loc == Loc(last.branch)
        IN  ChildNames(fs, loc)
              = Managed(last.pre)
                  \cup (ChildNames(last.pre, loc) \cap {deletionMarker, branchesDir})

(* C13 Sync-out reconciliation: after a successful sync-out every managed   *)
(* entry that the read returned is in storage at the same relative path,    *)
(* with the working tree's content.                                         *)
C13_Reconcile ==
    (last.op = "syncOut" /\ ~last.err) =>
        \A item \in Managed(last.pre) :
            CopiedTo(last.pre, Join(RepoRoot, item),
                     fs, Join(Loc(last.branch), item))

(* C14 Feature-branch edits stay local: sync-in and sync-out on a feature   *)
(* branch leave every entry of the default storage other than branches/ as  *)
(* it was and add none, and a successful sync-out puts each managed         *)
(* top-level entry of the working tree, edits included, into the feature    *)
(* branch's own storage.                                                    *)
C14_EditsStayLocal ==
    (last.op \in {"syncIn", "syncOut"} /\ last.branch # getDefaultBranch) =>
        /\ ChildNames(fs, StoreBase) \ {branchesDir}
              = ChildNames(last.pre, StoreBase) \ {branchesDir}
        /\ \A name \in ChildNames(last.pre, StoreBase) \ {branchesDir} :
              Tree(fs, Append(StoreBase, name))
                  = Tree(last.pre, Append(StoreBase, name))
        /\ (last.op = "syncOut" /\ ~last.err) =>
              \A name \in Managed(last.pre) \cap ChildNames(last.pre, RepoRoot) :
                  CopiedTo(last.pre, Append(RepoRoot, name),
                           fs, Append(Loc(last.branch), name))

C14_Witness ==
    /\ last.op = "syncOut" /\ ~last.err /\ last.branch = FA
    /\ IsFile(fs, Append(StoreBase, ClaudeMd))
    /\ fs[Append(StoreBase, ClaudeMd)].data = <<"A">>
    /\ IsFile(fs, Append(Loc(FA), ClaudeMd))
    /\ fs[Append(Loc(FA), ClaudeMd)].data = <<"c">>
    /\ last.pre[Append(Loc(FA), ClaudeMd)].data = <<"A">>

(* C15 Sync-in copies only user content: after a successful sync-in every   *)
(* top-level storage entry other than `.deleted_at` and `branches` is in    *)
(* the working tree under the same name with the storage's content and is   *)
(* a line of the ignore file, and `.deleted_at` and `branches` are in the   *)
(* working tree only if they were there before.                             *)
C15_SyncInUserContent ==
    (last.op = "syncIn" /\ ~last.err) =>
        LET loc == Loc(last.branch)
        IN  /\ \A name \in ChildNames(fs, loc) \ {deletionMarker, branchesDir} :
                  /\ CopiedTo(fs, Append(loc, name), fs, Append(RepoRoot, name))
                  /\ CountLines(fs, name) >= 1
            /\ \A name \in {deletionMarker, branchesDir} :
                  Stat(fs, Append(RepoRoot, name))
                      = Stat(last.pre, Append(RepoRoot, name))

C15_Witness ==
    /\ last.op = "syncIn" /\ ~last.err /\ last.branch = getDefaultBranch
    /\ Stat(fs, Append(StoreBase, deletionMarker))
    /\ Stat(fs, BranchesPath)
    /\ IsFile(last.pre, Append(RepoRoot, ClaudeMd))
    /\ last.pre[Append(RepoRoot, ClaudeMd)].data = <<"c">>
    /\ fs[Append(RepoRoot, ClaudeMd)].data = <<"A">>
    /\ ~Stat(fs, Append(RepoRoot, deletionMarker))

Blocked(name) ==
    \/ /\ IsDir(fs, Append(Loc(last.branch), name))
       /\ IsFile(last.pre, Append(RepoRoot, name))
    \/ /\ IsFile(fs, Append(Loc(last.branch), name))
       /\ IsDir(last.pre, Append(RepoRoot, name))

(* C17 Sync failures are fatal: a failed sync-in or sync-out ends the run   *)
(* with an error and no further phase; a sync-in that meets an entry it     *)
(* cannot copy leaves that entry and every later one uncopied and           *)
(* unregistered; a failed sync-out has removed nothing from storage.        *)
C17_SyncFatal ==
    /\ (last.op = "syncIn" /\ last.err) =>
          /\ pc = "idle"
          /\ outcome = Result("fatal", 0)
          /\ ExitStatus(outcome) = 1
          /\ \A n \in UserNames(fs, Loc(last.branch)) :
                Blocked(n) =>
                  \A m \in UserNames(fs, Loc(last.branch)) :
                     (m = n \/ NameLess(n, m)) =>
                        /\ Tree(fs, Append(RepoRoot, m))
                              = Tree(last.pre, Append(RepoRoot, m))
                        /\ CountLines(fs, m) = CountLines(last.pre, m)
    /\ (last.op = "syncOut" /\ last.err) =>
          /\ pc = "idle"
          /\ outcome = Result("fatal", claudeExit)
          /\ ExitStatus(outcome) = 1
          /\ ChildNames(last.pre, Loc(last.branch))
                \subseteq ChildNames(fs, Loc(last.branch))

C17_Witness ==
    /\ last.op = "syncIn" /\ last.err
    /\ Blocked(Notes)
    /\ CountLines(fs, Notes) = 0
    /\ IsFile(fs, Append(RepoRoot, ClaudeMd))
    /\ CountLines(fs, ClaudeMd) = 1
    /\ CountLines(last.pre, ClaudeMd) = 0

(* C18 Storage errors do not prevent the wrapped program from running:      *)
(* after a sync-in that failed, the wrapped program is running.             *)
C18_StorageErrorsTolerated ==
    (last.op = "syncIn" /\ last.err) => pc = "claude"

(* a retention pass in which the live-branch lookup or the listing of       *)
(* branches/ failed, or in which a marker could not be written because a    *)
(* directory is in its place                                                *)
CleanupFailed ==
    \/ last.err
    \/ \E d \in ChildNames(last.pre, BranchesPath) :
          /\ IsDir(last.pre, Append(BranchesPath, d))
          /\ unsanitizeBranchName(d) # last.branch
          /\ unsanitizeBranchName(d) \notin last.live
          /\ IsDir(last.pre, Append(Append(BranchesPath, d), deletionMarker))

C20_PassThrough ==
    [][ (pc = "idle" /\ (~inRepo \/ head = <<>>) /\ runs' # runs)
          => /\ fs' = fs
             /\ pc' = "idle"
             /\ last'.op = "exec"
             /\ outcome' \in {Result("exec", 0), Result("fatal", 0)} ]_vars

C20_Witness ==
    /\ last.op = "exec"
    /\ outcome = Result("exec", 0)
    /\ head = <<>>
    /\ IsFile(fs, Append(StoreBase, ClaudeMd))
    /\ ~Stat(fs, Append(RepoRoot, ClaudeMd))

(* a directory of branches/ that a retention pass went through and found    *)
(* neither current nor live                                                 *)
Missing(d) ==
    /\ IsDir(last.pre, Append(BranchesPath, d))
    /\ unsanitizeBranchName(d) # last.branch
    /\ unsanitizeBranchName(d) \notin last.live

MarkerOf(d) == Append(Append(BranchesPath, d), deletionMarker)

(* C21 First observation of a deleted branch: a retention pass that ran     *)
(* leaves, in every directory whose branch is neither current nor live and  *)
(* that had no marker, a marker holding the clock's whole seconds, and      *)
(* every other path of the directory as it was.                             *)
C21_FirstObservation ==
    (last.op = "cleanup" /\ ~last.err) =>
        \A d \in ChildNames(last.pre, BranchesPath) :
            (Missing(d) /\ ~Stat(last.pre, MarkerOf(d))) =>
                LET dir == Append(BranchesPath, d)
                IN  /\ IsFile(fs, MarkerOf(d))
                    /\ fs[MarkerOf(d)].data = FormatInt(last.at \div TicksPerSecond)
                    /\ DOMAIN Tree(fs, dir)
                          = DOMAIN Tree(last.pre, dir) \cup {<<deletionMarker>>}
                    /\ \A r \in DOMAIN Tree(last.pre, dir) :
                          Tree(fs, dir)[r] = Tree(last.pre, dir)[r]

C21_Witness ==
    /\ last.op = "cleanup" /\ ~last.err
    /\ last.at % TicksPerSecond # 0
    /\ \E d \in ChildNames(last.pre, BranchesPath) :
          /\ Missing(d)
          /\ ~Stat(last.pre, MarkerOf(d))
          /\ IsFile(last.pre, Append(Append(BranchesPath, d), ClaudeMd))
          /\ IsFile(fs, MarkerOf(d))

Malformed(d) ==
    /\ Missing(d)
    /\ IsFile(last.pre, MarkerOf(d))
    /\ ~ParseInt(TrimSpace(last.pre[MarkerOf(d)].data)).ok

(* C22 Malformed marker: a retention pass leaves a directory whose branch   *)
(* is neither current nor live and whose marker does not parse exactly as   *)
(* it was, marker included; the pass reports an error only when it did      *)
(* nothing at all; and every other directory is as the pass's step for it   *)
(* alone leaves it.                                                         *)
C22_MalformedMarker ==
    last.op = "cleanup" =>
        \A d \in ChildNames(last.pre, BranchesPath) :
            Malformed(d) =>
                /\ last.err => fs = last.pre
                /\ Tree(fs, Append(BranchesPath, d))
                      = Tree(last.pre, Append(BranchesPath, d))
                /\ ~last.err =>
                     \A e \in ChildNames(last.pre, BranchesPath) \ {d} :
                        IsDir(last.pre, Append(BranchesPath, e)) =>
                           Tree(fs, Append(BranchesPath, e))
                             = Tree(cleanupBranchDir(last.pre, loadConfig(last.branch),
                                                     last.live, last.at, e),
                                    Append(BranchesPath, e))

C22_Witness ==
    /\ last.op = "cleanup" /\ ~last.err
    /\ Malformed(sanitizeBranchName(FB))
    /\ IsFile(fs, MarkerOf(sanitizeBranchName(FB)))
    /\ Stat(last.pre, Loc(FA))
    /\ ~Stat(fs, Loc(FA))

(* C23 Automatic cleanup is eventual: whatever a directory contained, it is *)
(* no longer in place after a retention pass that ran to its end more than  *)
(* 7 days after the first of the passes that have found its branch missing  *)
(* ever since.                                                              *)
C23_EventualCleanup ==
    (last.op = "cleanup" /\ ~last.err) =>
        \A d \in DOMAIN last.seen : last.at - last.seen[d] <= SevenDays

(* C30 The grace clock is never reset: a retention pass that ran leaves the *)
(* marker of every directory that it keeps and whose branch is not live     *)
(* byte-identical, so a marker that parses never holds a time later than    *)
(* the first pass that found the branch missing.                            *)
C30_ClockNotReset ==
    (last.op = "cleanup" /\ ~last.err) =>
        /\ \A d \in ChildNames(last.pre, BranchesPath) :
              (/\ IsDir(last.pre, Append(BranchesPath, d))
               /\ unsanitizeBranchName(d) \notin last.live
               /\ Stat(last.pre, MarkerOf(d))
               /\ Stat(fs, Append(BranchesPath, d)))
              => /\ Stat(fs, MarkerOf(d))
                 /\ fs[MarkerOf(d)] = last.pre[MarkerOf(d)]
        /\ \A d \in DOMAIN last.seen :
              (/\ IsFile(fs, MarkerOf(d))
               /\ ParseInt(TrimSpace(fs[MarkerOf(d)].data)).ok)
              => ParseInt(TrimSpace(fs[MarkerOf(d)].data)).value * TicksPerSecond
                    <= last.seen[d]

C30_Witness ==
    /\ last.op = "cleanup" /\ ~last.err
    /\ \E d \in DOMAIN last.seen :
          /\ last.seen[d] < last.at
          /\ IsFile(last.pre, MarkerOf(d))
          /\ IsFile(fs, MarkerOf(d))
          /\ fs[MarkerOf(d)].data = FormatInt(last.seen[d] \div TicksPerSecond)

(* C24 Exclude add is idempotent: every entry that an add call added is a   *)
(* line of the ignore file exactly once; a successful add leaves the        *)
(* containing directory and the file in place, and leaves the file system   *)
(* as it was when the entry was already a line of the file.                 *)
C24_AddIdempotent ==
    /\ \A i \in 1..Len(exCalls) :
          ~exCalls[i].err => CountLines(fs, exCalls[i].item) = 1
    /\ (exLast.op = "add" /\ ~exLast.err) =>
          /\ IsDir(fs, ExInfo)
          /\ IsFile(fs, excludePathOf(RepoRoot))
          /\ CountLines(exLast.pre, exLast.item) >= 1 => fs = exLast.pre

(* the lines of the ignore file that pass the tests of read, each without   *)
(* one trailing "/"                                                         *)
ReadOf(f, lines) ==
    LET kept == SelectSeq(lines, LAMBDA l :
                    /\ l # <<>>
                    /\ ~HasPrefix(l, <<"#">>)
                    /\ ~ContainsAny(l, {"*", "?", "[", "]"})
                    /\ Stat(f, Join(RepoRoot, TrimSuffix(l, <<"/">>))))
    IN  [i \in 1..Len(kept) |-> TrimSuffix(kept[i], <<"/">>)]

Executable(node) == node.kind = "file" /\ (node.mode \div 64) % 2 = 1

(* C26 Permission preservation: after a successful sync-in every executable *)
(* file of the storage's user entries is in the working tree with the same  *)
(* permission bits; after a successful sync-out, also one that follows an   *)
(* edit, every executable file of a managed entry is in storage with the    *)
(* permission bits it has in the working tree.                              *)
C26_Permissions ==
    /\ (last.op = "syncIn" /\ ~last.err) =>
          \A r \in DOMAIN Entries(fs, Loc(last.branch)) :
              (/\ r[1] \notin {deletionMarker, branchesDir}
               /\ Executable(fs[Loc(last.branch) \o r]))
              => /\ IsFile(fs, RepoRoot \o r)
                 /\ fs[RepoRoot \o r].mode = fs[Loc(last.branch) \o r].mode
    /\ (last.op = "syncOut" /\ ~last.err) =>
          \A n \in Managed(last.pre) :
              LET src == Join(RepoRoot, n)
                  dst == Join(Loc(last.branch), n)
              IN  \A r \in DOMAIN Tree(last.pre, src) :
                     (/\ Executable(last.pre[src \o r])
                      /\ ("/" \notin SeqToSet(n) \/ IsFile(fs, dst \o r)))
                     => /\ IsFile(fs, dst \o r)
                        /\ fs[dst \o r].mode = last.pre[src \o r].mode

C26_Witness ==
    /\ last.op = "syncOut" /\ ~last.err /\ last.prevOp = "edit"
    /\ IsFile(fs, Append(RepoRoot, ClaudeMd))
    /\ IsFile(last.pre, Append(Loc(last.branch), ClaudeMd))
    /\ IsFile(fs, Append(Loc(last.branch), ClaudeMd))
    /\ fs[Append(RepoRoot, ClaudeMd)] = File(<<"c">>, DirPerm)
    /\ last.pre[Append(Loc(last.branch), ClaudeMd)] = File(<<"A">>, DirPerm)
    /\ fs[Append(Loc(last.branch), ClaudeMd)] = File(<<"c">>, DirPerm)

(* C27 Order independence of retention and sync: when a retention pass and *)
(* a sync pass (sync-out or sync-in) have run one after the other without   *)
(* error, storage is as the two passes leave it when applied to the same    *)
(* starting file system in the other order.                                 *)
C27_OrderIndependence ==
    pc = "two" =>
        LET a == OrdApply(last.op, last.pre)
            b == OrdApply(last.prevOp, a.fs)
        IN  (~last.err /\ ~last.prevErr /\ ~a.err /\ ~b.err) =>
                Tree(fs, StoreBase) = Tree(b.fs, StoreBase)

(* the step is a phase of run(): it records what the phase saw *)
PhaseStep(op) == last'.op = op /\ (last' # last \/ runs' # runs)

(* the step ends an invocation that was made inside a git repository and    *)
(* that was not ended from outside                                          *)
EndsInvocation ==
    /\ inRepo
    /\ pc' = "idle"
    /\ outcome' # outcome \/ runs' # runs
    /\ outcome'.kind # "killed"

(* the order of the phases: the wrapped program starts with the step that   *)
(* completes sync-in, sync-out is the step after the wrapped program's      *)
(* exit, and a retention pass is the step after a sync-out without error    *)
PhaseOrder ==
    /\ (pc # "claude" /\ pc' = "claude")
          => (pc = "idle" /\ PhaseStep("syncIn") /\ ~last'.err)
    /\ PhaseStep("syncIn") => pc = "idle"
    /\ (pc # "syncout" /\ pc' = "syncout") => pc = "claude"
    /\ PhaseStep("syncOut") => pc = "syncout"
    /\ PhaseStep("cleanup")
          => (pc = "cleanup" /\ last.op = "syncOut" /\ ~last.err /\ pc' = "idle")

C31_RetentionScope ==
    last.op = "cleanup" =>
        /\ ~Stat(last.pre, BranchesPath) => (fs = last.pre /\ ~last.err)
        /\ \A p \in Changed(last.pre, fs) :
              /\ Len(p) > Len(BranchesPath)
              /\ SubSeq(p, 1, Len(BranchesPath)) = BranchesPath
              /\ IsDir(last.pre, SubSeq(p, 1, Len(BranchesPath) + 1))

C31_Witness ==
    /\ last.op = "cleanup" /\ ~last.err
    /\ IsFile(last.pre, Append(BranchesPath, <<"stray">>))
    /\ IsFile(last.pre, Append(StoreBase, ClaudeMd))
    /\ Changed(last.pre, fs) # {}

(* the user entries of a storage location, with paths relative to it *)
UserEntries(f, loc) ==
    [r \in {q \in DOMAIN Entries(f, loc) :
               q[1] \notin {deletionMarker, branchesDir}}
        |-> f[loc \o r]]

(* C32 No cross-branch leakage through the working tree: after sync-in and  *)
(* sync-out on branch A and then sync-in and sync-out on branch B, with no  *)
(* edit and no error, no entry that was only in A's storage is in B's       *)
(* storage, and B's storage is what sync-in and sync-out on B alone make of *)
(* the starting file system.                                                *)
C32_NoLeakage ==
    (pc = "secondOut" /\ ~last.err /\ edits = 0) =>
        LET A == last.prevBranch
            B == last.branch
            alone == syncOut(syncIn(last.pre, loadConfig(B)).fs, loadConfig(B)).fs
        IN  /\ \A n \in UserNames(last.pre, Loc(A)) :
                  n \notin (UserNames(last.pre, Loc(B))
                              \cup UserNames(last.pre, StoreBase))
                  => n \notin UserNames(fs, Loc(B))
            /\ UserEntries(fs, Loc(B)) = UserEntries(alone, Loc(B))

(* C33 No loss on an unedited cycle: after a sync-in and the sync-out that  *)
(* follows it with no edit and no error, every user entry that the storage  *)
(* held when sync-in listed it was reported by the read of the sync-out and *)
(* is in storage as it was.                                                 *)
C33_NoLoss ==
    (pc = "firstOut" /\ ~last.err /\ edits = 0) =>
        LET loc == Loc(last.branch)
            synced == syncIn(last.pre, loadConfig(last.branch)).fs
        IN  \A n \in UserNames(synced, loc) :
               /\ n \in Managed(synced)
               /\ Tree(fs, Append(loc, n)) = Tree(synced, Append(loc, n))

(* C34 Deletions inside a managed directory are pruned: after a successful  *)
(* sync-out the storage copy of every managed directory holds exactly what  *)
(* the working-tree directory holds, and the next sync-in leaves the        *)
(* working-tree directory as it is.                                         *)
C34_InnerPruning ==
    (pc \in {"firstOut", "secondOut"} /\ ~last.err) =>
        \A n \in Managed(fs) :
            IsDir(fs, Join(RepoRoot, n)) =>
               /\ Entries(fs, Join(Loc(last.branch), n))
                     = Entries(fs, Join(RepoRoot, n))
               /\ Entries(syncIn(fs, cfg).fs, Join(RepoRoot, n))
                     = Entries(fs, Join(RepoRoot, n))

(* C35 Deletion requires continuous absence: a retention pass deletes a     *)
(* directory of branches/ only if no completed pass since the marker in it  *)
(* was written found its branch current or live.                            *)
DeletedBy(pre, post) ==
    {d \in ChildNames(pre, BranchesPath) :
        /\ IsDir(pre, Append(BranchesPath, d))
        /\ ~Stat(post, Append(BranchesPath, d))}

C35_ContinuousAbsence ==
    (last.op = "cleanup" /\ ~last.err /\ IsDir(last.pre, BranchesPath)) =>
        DeletedBy(last.pre, fs) \cap last.revived = {}

(* C36 Failed live-branch lookup is safe: a retention pass over an existing  *)
(* branches directory whose branch lookup fails returns an error and leaves *)
(* the file system as it found it: no marker written or removed, no         *)
(* directory deleted.                                                       *)
LookupFailed(f, b, live, t) ==
    cleanupDeletedBranches(f, loadConfig(b), FALSE, live, t)

C36_FailedLookupSafe ==
    (last.op = "cleanup" /\ IsDir(last.pre, BranchesPath)) =>
        /\ LookupFailed(last.pre, last.branch, last.live, last.at).err
        /\ LookupFailed(last.pre, last.branch, last.live, last.at).fs
              = last.pre
        /\ last.err => fs = last.pre

C36_Witness ==
    /\ last.op = "cleanup" /\ last.err
    /\ IsDir(last.pre, BranchesPath)
    /\ fs = last.pre
    /\ cleanupDeletedBranches(last.pre, loadConfig(last.branch), TRUE,
                              last.live, last.at).fs # last.pre

(* C37 Sync-out writes only user entries of its own storage location:      *)
(* every path that a sync-out creates, changes or removes lies in the       *)
(* storage location of the session (or is a directory created on the way to *)
(* it) and is neither the location's .deleted_at marker nor at or below its *)
(* branches directory.                                                      *)
AtOrBelow(p, q) == Len(p) >= Len(q) /\ SubSeq(p, 1, Len(q)) = q

C37_SyncOutScope ==
    (pc = "one" /\ last.op = "syncOut") =>
        LET loc == Loc(last.branch)
        IN  \A p \in Changed(last.pre, fs) :
               \/ AtOrBelow(loc, p)
               \/ /\ AtOrBelow(p, loc)
                  /\ ~AtOrBelow(p, Append(loc, deletionMarker))
                  /\ ~AtOrBelow(p, Append(loc, branchesDir))

(* C38 Exclude add postcondition: after a successful add the entry is a     *)
(* complete line of the ignore file, and the same add made again leaves the *)
(* file system unchanged and succeeds.                                      *)
C38_AddPostcondition ==
    (exLast.op = "add" /\ ~exLast.err) =>
        /\ CountLines(fs, exLast.item) >= 1
        /\ addToExclude(fs, RepoRoot, exLast.item) = [fs |-> fs, err |-> FALSE]

(* C39 Recovery from a failed initialization: when the initialization of a  *)
(* feature branch's storage has failed after creating the directory, the    *)
(* next successful sync-in on the branch leaves every user entry of the     *)
(* default storage in the branch storage as the default storage held it.    *)
SeededFrom(pre, post, b) ==
    \A n \in UserNames(pre, StoreBase) :
        Tree(post, Append(Loc(b), n)) = Tree(pre, Append(StoreBase, n))

C39_InitRecovery ==
    (pc = "retried" /\ ~last.err) => SeededFrom(last.pre, fs, last.branch)

====
